---- MODULE Spec2Model ----
(***************************************************************************)
(* Model of package dirs (src/dirs/dirs.go): the global root directory,    *)
(* the snap mount directory probe, the table of derived paths, the set of  *)
(* snap home directories with its globs, and the root-change callbacks.    *)
(*                                                                         *)
(* A Go string is a sequence of tokens.  The separator "/", the dot ".",   *)
(* the comma "," and the letter "a" are one-character tokens; a longer     *)
(* name that the code only ever uses whole ("home", "snap", "var", ...)    *)
(* is one token.  strings.HasPrefix, filepath.Clean, filepath.Join,        *)
(* filepath.Rel and strings.Split work on these sequences the way the Go   *)
(* functions work on the bytes of a string.                                *)
(***************************************************************************)
EXTENDS Integers, Sequences, FiniteSets, TLC

\* ---------------------------------------------------------------- bounds

\* longest root directory handed to SetRootDir
MaxRootLen == 2
\* longest homedirs string handed to SetSnapHomeDirs
MaxHomeLen == 2
\* longest path handed to StripRootDir
MaxDirLen == 3
\* most callbacks registered with AddRootDirCallback
MaxCallbacks == 2
\* most threads calling into the package at once
MaxThreads == 2

\* ------------------------------------------------- strings and filepath

Sep == "/"

RECURSIVE StringsUpTo(_, _)
\* every string of at most n tokens over the alphabet
StringsUpTo(alphabet, n) ==
    IF n = 0 THEN {<<>>}
    ELSE StringsUpTo(alphabet, n - 1)
         \cup {Append(s, c) : s \in StringsUpTo(alphabet, n - 1), c \in alphabet}

\* strings.HasPrefix
HasPrefix(s, prefix) ==
    /\ Len(prefix) <= Len(s)
    /\ SubSeq(s, 1, Len(prefix)) = prefix

\* strings.HasSuffix
HasSuffix(s, suffix) ==
    /\ Len(suffix) <= Len(s)
    /\ SubSeq(s, Len(s) - Len(suffix) + 1, Len(s)) = suffix

\* the pieces of s between the cuts, a cut being the position of a separator
Pieces(s, cut) ==
    [k \in 1..(Len(cut) - 1) |-> SubSeq(s, cut[k] + 1, cut[k + 1] - 1)]

\* strings.Split: the pieces of s between the separators, empty pieces kept
Split(s, sep) ==
    Pieces(s, <<0>> \o SelectSeq([i \in 1..Len(s) |-> i], LAMBDA i : s[i] = sep)
                    \o <<Len(s) + 1>>)

RECURSIVE JoinSep(_, _)
\* strings.Join
JoinSep(elems, sep) ==
    IF elems = <<>> THEN <<>>
    ELSE IF Len(elems) = 1 THEN elems[1]
    ELSE elems[1] \o <<sep>> \o JoinSep(Tail(elems), sep)

\* strutil.ListContains
ListContains(list, str) == \E i \in 1..Len(list) : list[i] = str

\* filepath.IsAbs
IsAbs(path) == HasPrefix(path, <<Sep>>)

Dot == <<".">>
DotDot == <<".", ".">>

RECURSIVE CleanComps(_, _, _)
\* the elements of a path with "" and "." dropped and ".." resolved
CleanComps(cs, rooted, out) ==
    IF cs = <<>> THEN out
    ELSE IF Head(cs) = <<>> \/ Head(cs) = Dot THEN CleanComps(Tail(cs), rooted, out)
    ELSE IF Head(cs) # DotDot THEN CleanComps(Tail(cs), rooted, Append(out, Head(cs)))
    ELSE IF out # <<>> /\ out[Len(out)] # DotDot
         THEN CleanComps(Tail(cs), rooted, SubSeq(out, 1, Len(out) - 1))
    ELSE IF rooted THEN CleanComps(Tail(cs), rooted, out)
    ELSE CleanComps(Tail(cs), rooted, Append(out, DotDot))

\* a cleaned path written out from its elements
CleanedPath(rooted, out) ==
    IF rooted THEN <<Sep>> \o JoinSep(out, Sep)
    ELSE IF out = <<>> THEN Dot
    ELSE JoinSep(out, Sep)

\* filepath.Clean
Clean(path) ==
    IF path = <<>> THEN Dot
    ELSE CleanedPath(path[1] = Sep, CleanComps(Split(path, Sep), path[1] = Sep, <<>>))

RECURSIVE DropEmpty(_)
\* the elements from the first non-empty one on
DropEmpty(elems) ==
    IF elems = <<>> THEN <<>>
    ELSE IF Head(elems) = <<>> THEN DropEmpty(Tail(elems))
    ELSE elems

\* the elements joined with the separator and cleaned; "" when there is none
JoinFrom(rest) == IF rest = <<>> THEN <<>> ELSE Clean(JoinSep(rest, Sep))

\* filepath.Join
Join(elems) == JoinFrom(DropEmpty(elems))

RECURSIVE CommonLen(_, _)
\* how many leading elements two element lists share
CommonLen(a, b) ==
    IF a = <<>> \/ b = <<>> THEN 0
    ELSE IF Head(a) = Head(b) THEN 1 + CommonLen(Tail(a), Tail(b))
    ELSE 0

\* the body of a cleaned path: the path without its leading separator
Body(cleaned) == IF IsAbs(cleaned) THEN Tail(cleaned) ELSE cleaned

\* the elements of a cleaned path
Elements(cleaned) ==
    IF Body(cleaned) = <<>> \/ Body(cleaned) = Dot THEN <<>>
    ELSE Split(Body(cleaned), Sep)

\* the way from the base's elements to the target's, n leading elements shared
RelFrom(be, te, n) ==
    IF n < Len(be) /\ be[n + 1] = DotDot THEN [err |-> TRUE, path |-> <<>>]
    ELSE [ err |-> FALSE,
           path |-> JoinSep([i \in 1..(Len(be) - n) |-> DotDot]
                                \o SubSeq(te, n + 1, Len(te)), Sep) ]

RelElements(be, te) == RelFrom(be, te, CommonLen(be, te))

\* filepath.Rel on cleaned paths
RelCleaned(base, targ) ==
    IF targ = base THEN [err |-> FALSE, path |-> Dot]
    ELSE IF IsAbs(base) # IsAbs(targ) THEN [err |-> TRUE, path |-> <<>>]
    ELSE RelElements(Elements(base), Elements(targ))

\* filepath.Rel: [err, path]
Rel(basepath, targpath) == RelCleaned(Clean(basepath), Clean(targpath))


\* ------------------------------------------------------------ constants

Root == <<Sep>>
DefaultSnapMountDir == <<"/", "snap">>
AltSnapMountDir == <<"/", "var", "/", "lib", "/", "snapd", "/", "snap">>
DefaultDistroLibexecDir == <<"/", "usr", "/", "lib", "/", "snapd">>
AltDistroLibexecDir == <<"/", "usr", "/", "libexec", "/", "snapd">>
UserHomeSnapDir == <<"snap">>
HiddenSnapDataHomeDir == <<".snap", "/", "data">>
snappyDir == Join(<< <<"var">>, <<"lib">>, <<"snapd">> >>)
snapMountDirUnresolvedPlaceholder == <<"mount-dir-is-unset">>
DefaultHome == <<"/", "home">>
Star == <<"*">>

\* the values of an error
Nil == "nil"
ErrStat == "cannot stat"
ErrReadlink == "readlink"
ErrNotSymlinkToAlt == "must be a symbolic link to /var/lib/snapd/snap"
ErrUnresolved == "internal error: unresolved snap mount dir"
ErrMetaStat == "stat /meta/snap.yaml"

\* --------------------------------------------------------------- inputs

RootAlphabet == {"/", "a", "."}
HomeAlphabet == {"/", "a", ".", ",", "home"}
DirAlphabet == {"/", "a", "."}

RootDirs == StringsUpTo(RootAlphabet, MaxRootLen)
HomeDirStrings == StringsUpTo(HomeAlphabet, MaxHomeLen)
Dirs == StringsUpTo(DirAlphabet, MaxDirLen)

\* a callback is known by the package variable it reads when it is called
Callbacks ==
    {"SnapBinariesDir", "snapHomeDirs", "WritableMountPath",
     "WritableUbuntuCoreSystemDataDir"}

\* what readlink on the default mount path can return
LinkTargets ==
    { AltSnapMountDir,
      Tail(AltSnapMountDir),
      Join(<< <<"/", "a">>, AltSnapMountDir >>),
      <<"/", "a">> }

NoLink == [readlinkErr |-> FALSE, target |-> <<>>]

\* what Lstat and Readlink on the default mount path can report
DefaultDirStates ==
    {[kind |-> k, link |-> NoLink] : k \in {"missing", "error", "dir", "file"}}
    \cup {[kind |-> "symlink", link |-> [readlinkErr |-> TRUE, target |-> <<>>]]}
    \cup {[kind |-> "symlink", link |-> [readlinkErr |-> FALSE, target |-> t]] :
             t \in LinkTargets}

StatResults == {"exists", "missing", "error"}

\* ---------------------------------------------------------------- state

VARIABLES
    release,        \* [OnClassic, DistroLikeSpecial]: package release
    fs,             \* [metaSnap, defaultDir, libexec, altLibexec]: the filesystem
    GlobalRootDir,
    SnapMountDir,
    snapMountDirDetectionError,
    paths,          \* the other entries of the path table
    snapHomeDirs,
    snapDataHomeGlob,
    hiddenSnapDataHomeGlob,
    callbacks,
    invoked,        \* what the callbacks of the last SetRootDir were handed and read
    snapHomeDirsMu, \* the thread that holds the mutex, 0 when none does
    threads,        \* where each thread is in its call: [pc, op, arg, i]
    last            \* the last call: [op, arg, panic, str, list, n, twice, probed, calls, before]

vars == << release, fs, GlobalRootDir, SnapMountDir, snapMountDirDetectionError,
           paths, snapHomeDirs, snapDataHomeGlob, hiddenSnapDataHomeGlob,
           callbacks, invoked, snapHomeDirsMu, threads, last >>

envVars == << release, fs >>
syncVars == << snapHomeDirsMu, threads >>
homeVars == << snapHomeDirs, snapDataHomeGlob, hiddenSnapDataHomeGlob >>
tableVars == << GlobalRootDir, SnapMountDir, snapMountDirDetectionError, paths >>

\* a call and what it gave back: a panic, a string or a list.  Of a SetRootDir,
\* n is the number of home directories set when it was entered, twice says
\* that the call before it was SetRootDir of the same rootdir, probed that it
\* ran snapMountDirProbe, and calls lists what the probe asked of the disk.  Of
\* a SetSnapHomeDirs of a thread, before is the list the call found
Call(op, arg) ==
    [ op |-> op, arg |-> arg, panic |-> FALSE, str |-> <<>>, list |-> <<>>, n |-> 0,
      twice |-> FALSE, probed |-> FALSE, calls |-> <<>>, before |-> <<>> ]

Threads == 1..MaxThreads

\* a thread that is not inside a call
Idle == [pc |-> "idle", op |-> "", arg |-> <<>>, i |-> 0, old |-> <<>>]

\* the package-level variables before init() has run
ZeroPaths ==
    [ SnapDataDir |-> <<>>, SnapSeccompBase |-> <<>>, SnapSeccompDir |-> <<>>,
      SnapRunDir |-> <<>>, SnapRunLockDir |-> <<>>, SnapBinariesDir |-> <<>>,
      DistroLibExecDir |-> <<>>, WritableMountPath |-> <<>>,
      WritableUbuntuCoreSystemDataDir |-> <<>> ]

ZeroHome ==
    [snapHomeDirs |-> <<>>, snapDataHomeGlob |-> <<>>, hiddenSnapDataHomeGlob |-> <<>>]

\* ------------------------------------------------------- home directories

\* the root with a trailing separator, as the prefix test wants it
RootPrefix(root) ==
    IF root # Root /\ ~HasSuffix(root, <<Sep>>) THEN root \o <<Sep>> ELSE root

\* a cleaned entry, joined to the root unless it has the root as prefix
UnderRoot(root, cleaned) ==
    IF ~HasPrefix(cleaned, RootPrefix(root))
    THEN Join(<<root, cleaned>>)
    ELSE cleaned

\* one entry of the loop: cleaned, then put under the root
HomeDirEntry(root, entry) == UnderRoot(root, Clean(entry))

\* the loop's two appends
AppendGlobs(st, dir) ==
    [ st EXCEPT
        !.snapDataHomeGlob = Append(@, Join(<<dir, Star, UserHomeSnapDir>>)),
        !.hiddenSnapDataHomeGlob = Append(@, Join(<<dir, Star, HiddenSnapDataHomeDir>>)) ]

\* one turn of the loop: entry i replaced by dir, and the globs of dir appended
LoopTurn(st, i, dir) == AppendGlobs([st EXCEPT !.snapHomeDirs[i] = dir], dir)

RECURSIVE HomeDirsLoop(_, _, _)
\* for i := range snapHomeDirs
HomeDirsLoop(root, i, st) ==
    IF i > Len(st.snapHomeDirs) THEN st
    ELSE HomeDirsLoop(root, i + 1,
             LoopTurn(st, i, HomeDirEntry(root, st.snapHomeDirs[i])))

\* the lists after the loop; no loop when homedirs is empty
Looped(root, homedirs) ==
    IF homedirs # <<>>
    THEN HomeDirsLoop(root, 1, [ZeroHome EXCEPT !.snapHomeDirs = Split(homedirs, ",")])
    ELSE ZeroHome

\* a faulty variant: the default home is appended whatever the list holds
AlwaysNeedsHome(root, dirs) == TRUE

\* whether the default home is appended
NeedsHome(root, dirs) == ~ListContains(dirs, Join(<<root, DefaultHome>>))

\* a faulty variant: the default home is appended without its globs
AppendHomeOnly(root, st) ==
    [st EXCEPT !.snapHomeDirs = Append(@, Join(<<root, DefaultHome>>))]

\* the default home and its globs appended
AppendHome(root, st) ==
    [ snapHomeDirs |-> Append(st.snapHomeDirs, Join(<<root, DefaultHome>>)),
      snapDataHomeGlob |->
          Append(st.snapDataHomeGlob,
                 Join(<<root, DefaultHome, Star, UserHomeSnapDir>>)),
      hiddenSnapDataHomeGlob |->
          Append(st.hiddenSnapDataHomeGlob,
                 Join(<<root, DefaultHome, Star, HiddenSnapDataHomeDir>>)) ]

\* the default home made sure of
WithHome(root, st) ==
    IF NeedsHome(root, st.snapHomeDirs) THEN AppendHome(root, st) ELSE st

\* the three lists SetSnapHomeDirs(homedirs) leaves under the root
HomeDirsFor(root, homedirs) == WithHome(root, Looped(root, homedirs))

\* SnapHomeDirs()
SnapHomeDirs ==
    IF Len(snapHomeDirs) = 0
    THEN << Join(<<GlobalRootDir, DefaultHome>>) >>
    ELSE snapHomeDirs

\* DataHomeGlobs(opts): opts nil is not hidden
DataHomeGlobs(hidden) ==
    IF hidden THEN hiddenSnapDataHomeGlob ELSE snapDataHomeGlob

\* what StripRootDir makes of the relative path
Stripped(rel) ==
    IF rel.err THEN [panic |-> TRUE, str |-> <<>>]
    ELSE [panic |-> FALSE, str |-> <<Sep>> \o rel.path]

\* StripRootDir(dir) under the root: [panic, str]
StripRootDirResult(root, dir) ==
    IF ~IsAbs(dir) THEN [panic |-> TRUE, str |-> <<>>]
    ELSE IF ~HasPrefix(dir, root) THEN [panic |-> TRUE, str |-> <<>>]
    ELSE Stripped(Rel(root, dir))

\* ------------------------------------------------------------ SetRootDir

\* a faulty variant: the empty root is kept
RootDirKept(rootdir) == rootdir

\* if rootdir == "" { rootdir = "/" }
RootDirFor(rootdir) == IF rootdir = <<>> THEN Root ELSE rootdir

\* every value GlobalRootDir takes
GlobalRootDirs == {RootDirFor(rootdir) : rootdir \in RootDirs}

\* what SetRootDir joins to rootdir, whatever is on disk
RootPaths(rootdir) ==
    [ defaultDir |-> Join(<<rootdir, DefaultSnapMountDir>>),
      altDir |-> Join(<<rootdir, AltSnapMountDir>>),
      SnapDataDir |-> Join(<<rootdir, <<"/", "var", "/", "snap">> >>),
      SnapSeccompBase |-> Join(<<rootdir, snappyDir, <<"seccomp">> >>),
      SnapSeccompDir |-> Join(<<Join(<<rootdir, snappyDir, <<"seccomp">> >>), <<"bpf">> >>),
      SnapRunDir |-> Join(<<rootdir, <<"/", "run", "/", "snapd">> >>),
      SnapRunLockDir |->
          Join(<<Join(<<rootdir, <<"/", "run", "/", "snapd">> >>), <<"/", "lock">> >>),
      defaultLibexec |-> Join(<<rootdir, DefaultDistroLibexecDir>>),
      altLibexec |-> Join(<<rootdir, AltDistroLibexecDir>>),
      writable |-> Join(<<rootdir, <<"writable">> >>) ]

\* RootPaths, HomeDirsFor and StripRootDirResult tabulated over the inputs
RootPathsTable == [rootdir \in GlobalRootDirs |-> RootPaths(rootdir)]

HomeDirsTable ==
    [root \in GlobalRootDirs, homedirs \in HomeDirStrings |-> HomeDirsFor(root, homedirs)]

\* relative paths joined to the root before they are stripped
RelPaths == {p \in Dirs : ~IsAbs(p)}

StripDirs == Dirs \cup {Join(<<root, p>>) : root \in GlobalRootDirs, p \in RelPaths}

StripTable ==
    [root \in GlobalRootDirs, dir \in StripDirs |-> StripRootDirResult(root, dir)]

\* a faulty variant: the marker of a base image is never found
NeverInsideBaseSnap == [inside |-> FALSE, err |-> Nil]

\* isInsideBaseSnap(): [inside, err]
isInsideBaseSnap ==
    IF fs.metaSnap = "missing" THEN [inside |-> FALSE, err |-> Nil]
    ELSE IF fs.metaSnap = "exists" THEN [inside |-> TRUE, err |-> Nil]
    ELSE [inside |-> FALSE, err |-> ErrMetaStat]

\* a faulty variant: the disk is asked on every distribution
ProbeAtAnyDistro(defaultDir, altDir, st) ==
    IF st.kind = "missing" THEN [dir |-> altDir, err |-> Nil, calls |-> <<"Lstat">>]
    ELSE IF st.kind = "error" THEN [dir |-> <<>>, err |-> ErrStat, calls |-> <<"Lstat">>]
    ELSE IF st.kind = "symlink"
         THEN IF st.link.readlinkErr THEN [dir |-> <<>>, err |-> ErrReadlink, calls |-> <<"Lstat", "Readlink">>]
              ELSE IF /\ st.link.target # AltSnapMountDir
                      /\ st.link.target # Tail(AltSnapMountDir)
                      /\ st.link.target # altDir
                   THEN [dir |-> <<>>, err |-> ErrNotSymlinkToAlt,
                         calls |-> <<"Lstat", "Readlink">>]
              ELSE [dir |-> altDir, err |-> Nil, calls |-> <<"Lstat", "Readlink">>]
    ELSE IF st.kind = "dir" THEN [dir |-> defaultDir, err |-> Nil, calls |-> <<"Lstat">>]
    ELSE [dir |-> <<>>, err |-> ErrUnresolved, calls |-> <<"Lstat">>]

\* a faulty variant: a symlink is accepted only when its target is the
\* alternate path as the constant spells it
ProbeAtExactTarget(defaultDir, altDir, st) ==
    IF release.DistroLikeSpecial THEN [dir |-> defaultDir, err |-> Nil, calls |-> <<>>]
    ELSE IF st.kind = "missing" THEN [dir |-> altDir, err |-> Nil, calls |-> <<"Lstat">>]
    ELSE IF st.kind = "error" THEN [dir |-> <<>>, err |-> ErrStat, calls |-> <<"Lstat">>]
    ELSE IF st.kind = "symlink"
         THEN IF st.link.readlinkErr THEN [dir |-> <<>>, err |-> ErrReadlink, calls |-> <<"Lstat", "Readlink">>]
              ELSE IF st.link.target # AltSnapMountDir
                   THEN [dir |-> <<>>, err |-> ErrNotSymlinkToAlt,
                         calls |-> <<"Lstat", "Readlink">>]
              ELSE [dir |-> altDir, err |-> Nil, calls |-> <<"Lstat", "Readlink">>]
    ELSE IF st.kind = "dir" THEN [dir |-> defaultDir, err |-> Nil, calls |-> <<"Lstat">>]
    ELSE [dir |-> <<>>, err |-> ErrUnresolved, calls |-> <<"Lstat">>]

\* the probe, given its two candidates and what is at the default path
ProbeAt(defaultDir, altDir, st) ==
    IF release.DistroLikeSpecial THEN [dir |-> defaultDir, err |-> Nil, calls |-> <<>>]
    ELSE IF st.kind = "missing" THEN [dir |-> altDir, err |-> Nil, calls |-> <<"Lstat">>]
    ELSE IF st.kind = "error" THEN [dir |-> <<>>, err |-> ErrStat, calls |-> <<"Lstat">>]
    ELSE IF st.kind = "symlink"
         THEN IF st.link.readlinkErr THEN [dir |-> <<>>, err |-> ErrReadlink, calls |-> <<"Lstat", "Readlink">>]
              ELSE IF /\ st.link.target # AltSnapMountDir
                      /\ st.link.target # Tail(AltSnapMountDir)
                      /\ st.link.target # altDir
                   THEN [dir |-> <<>>, err |-> ErrNotSymlinkToAlt,
                         calls |-> <<"Lstat", "Readlink">>]
              ELSE [dir |-> altDir, err |-> Nil, calls |-> <<"Lstat", "Readlink">>]
    ELSE IF st.kind = "dir" THEN [dir |-> defaultDir, err |-> Nil, calls |-> <<"Lstat">>]
    ELSE [dir |-> <<>>, err |-> ErrUnresolved, calls |-> <<"Lstat">>]

\* snapMountDirProbe(rootdir), at the joined paths of rootdir: [dir, err]
snapMountDirProbe(at) == ProbeAt(at.defaultDir, at.altDir, fs.defaultDir)

\* a faulty variant: a failed probe's empty directory is published
ProbedAsIs(probe) ==
    [dir |-> probe.dir, err |-> probe.err, probed |-> TRUE, calls |-> probe.calls]

\* what SetRootDir makes of the probe's result
Probed(probe) ==
    IF probe.err = Nil
    THEN [dir |-> probe.dir, err |-> Nil, probed |-> TRUE, calls |-> probe.calls]
    ELSE [ dir |-> snapMountDirUnresolvedPlaceholder, err |-> probe.err,
           probed |-> TRUE, calls |-> probe.calls ]

\* SnapMountDir and snapMountDirDetectionError as SetRootDir sets them
MountDirFor(at, prevErr) ==
    IF isInsideBaseSnap.inside
    THEN [dir |-> at.defaultDir, err |-> prevErr, probed |-> FALSE, calls |-> <<>>]
    ELSE Probed(snapMountDirProbe(at))

\* a faulty variant: the alternate is taken whenever the default is missing
AltWhenDefaultMissing(at) ==
    IF fs.libexec = "missing" THEN at.altLibexec ELSE at.defaultLibexec

\* DistroLibExecDir as SetRootDir sets it
DistroLibExecDirFor(at) ==
    IF fs.libexec = "missing" /\ fs.altLibexec = "exists"
    THEN at.altLibexec
    ELSE at.defaultLibexec

\* WritableMountPath as SetRootDir sets it
WritableMountPathFor(rootdir, at) ==
    IF release.OnClassic THEN rootdir ELSE at.writable

\* the path table entries set before the callbacks run
PathsFor(at, mountDir, prev) ==
    [ SnapDataDir |-> at.SnapDataDir,
      SnapSeccompBase |-> at.SnapSeccompBase,
      SnapSeccompDir |-> at.SnapSeccompDir,
      SnapRunDir |-> at.SnapRunDir,
      SnapRunLockDir |-> at.SnapRunLockDir,
      SnapBinariesDir |-> Join(<<mountDir, <<"bin">> >>),
      DistroLibExecDir |-> DistroLibExecDirFor(at),
      WritableMountPath |-> prev.WritableMountPath,
      WritableUbuntuCoreSystemDataDir |-> prev.WritableUbuntuCoreSystemDataDir ]

\* a faulty variant: the home directories of the old root are kept
HomeDirsKept(rootdir, prevHome) == prevHome

\* a faulty variant: the default home is appended to the lists as they are
HomeDirsGrown(rootdir, prevHome) == AppendHome(rootdir, prevHome)

\* SetSnapHomeDirs("/home") with the new root in place
ResetHomeDirs(rootdir, prevHome) == HomeDirsTable[rootdir, DefaultHome]

\* the package variable a callback reads, as a list of strings
Read(c, globals) ==
    IF c = "snapHomeDirs" THEN globals.snapHomeDirs ELSE << globals.paths[c] >>

\* for _, c := range callbacks { c(rootdir) }: what each callback is handed
\* and what it reads
InvokeCallbacks(cbs, rootdir, globals) ==
    [i \in 1..Len(cbs) |->
        [callback |-> cbs[i], rootdir |-> rootdir, value |-> Read(cbs[i], globals)]]

\* the two entries set after the callbacks have run
WritablePaths(table, WritableMountPath) ==
    [table EXCEPT
        !.WritableMountPath = WritableMountPath,
        !.WritableUbuntuCoreSystemDataDir =
            Join(<<WritableMountPath, <<"system-data">> >>)]

PathsAfterCallbacks(rootdir, at, table) ==
    WritablePaths(table, WritableMountPathFor(rootdir, at))

\* the package variables when SetRootDir returns, given the mount directory,
\* the table and the home directories it has set by the time the callbacks run
Returned(rootdir, at, mount, table, home, cbs) ==
    [ GlobalRootDir |-> rootdir,
      SnapMountDir |-> mount.dir,
      err |-> mount.err,
      probed |-> mount.probed,
      calls |-> mount.calls,
      paths |-> PathsAfterCallbacks(rootdir, at, table),
      home |-> home,
      invoked |-> InvokeCallbacks(cbs, rootdir,
                      [paths |-> table, snapHomeDirs |-> home.snapHomeDirs]) ]

\* SetRootDir once the mount directory is settled
Mounted(rootdir, at, mount, prev) ==
    Returned(rootdir, at, mount, PathsFor(at, mount.dir, prev.paths),
             ResetHomeDirs(rootdir, prev.home), prev.callbacks)

\* SetRootDir on a non-empty rootdir
RootedStep(rootdir, at, prev) ==
    Mounted(rootdir, at, MountDirFor(at, prev.err), prev)

\* SetRootDir(rootdir) from the package variables prev = [err, paths, home, callbacks]
RootDirStep(rootdir, prev) ==
    RootedStep(RootDirFor(rootdir), RootPathsTable[RootDirFor(rootdir)], prev)

\* the package variables are those of s, the call made being call
Holds(s, call) ==
    /\ GlobalRootDir = s.GlobalRootDir
    /\ SnapMountDir = s.SnapMountDir
    /\ snapMountDirDetectionError = s.err
    /\ paths = s.paths
    /\ snapHomeDirs = s.home.snapHomeDirs
    /\ snapDataHomeGlob = s.home.snapDataHomeGlob
    /\ hiddenSnapDataHomeGlob = s.home.hiddenSnapDataHomeGlob
    /\ invoked = s.invoked
    /\ last = [call EXCEPT !.probed = s.probed, !.calls = s.calls]

\* func init(): SetRootDir(os.Getenv("SNAPPY_GLOBAL_ROOT")) on the zero values
Loaded(root) ==
    /\ Holds(RootDirStep(root, [ err |-> Nil, paths |-> ZeroPaths, home |-> ZeroHome,
                                 callbacks |-> <<>> ]),
             Call("init", root))
    /\ callbacks = <<>>
    /\ snapHomeDirsMu = 0
    /\ threads = [t \in Threads |-> Idle]

\* -------------------------------------------------------------- actions

\* the package variables become those of s, the call made being call
Becomes(s, call) ==
    /\ GlobalRootDir' = s.GlobalRootDir
    /\ SnapMountDir' = s.SnapMountDir
    /\ snapMountDirDetectionError' = s.err
    /\ paths' = s.paths
    /\ snapHomeDirs' = s.home.snapHomeDirs
    /\ snapDataHomeGlob' = s.home.snapDataHomeGlob
    /\ hiddenSnapDataHomeGlob' = s.home.hiddenSnapDataHomeGlob
    /\ invoked' = s.invoked
    /\ last' = [call EXCEPT !.probed = s.probed, !.calls = s.calls]

SetRootDir(rootdir) ==
    /\ Becomes(RootDirStep(rootdir,
                   [ err |-> snapMountDirDetectionError,
                     paths |-> paths,
                     home |-> [ snapHomeDirs |-> snapHomeDirs,
                                snapDataHomeGlob |-> snapDataHomeGlob,
                                hiddenSnapDataHomeGlob |-> hiddenSnapDataHomeGlob ],
                     callbacks |-> callbacks ]),
               [Call("SetRootDir", rootdir) EXCEPT
                   !.n = Len(snapHomeDirs),
                   !.twice = (last.op = "SetRootDir" /\ last.arg = rootdir)])
    /\ UNCHANGED << envVars, syncVars, callbacks >>

AddRootDirCallback(c) ==
    /\ Len(callbacks) < MaxCallbacks
    /\ callbacks' = Append(callbacks, c)
    /\ last' = Call("AddRootDirCallback", <<>>)
    /\ UNCHANGED << envVars, syncVars, tableVars, homeVars, invoked >>

\* the three lists become those of home, and the first is returned
HomeBecomes(homedirs, home) ==
    /\ snapHomeDirs' = home.snapHomeDirs
    /\ snapDataHomeGlob' = home.snapDataHomeGlob
    /\ hiddenSnapDataHomeGlob' = home.hiddenSnapDataHomeGlob
    /\ last' = [Call("SetSnapHomeDirs", homedirs) EXCEPT !.list = home.snapHomeDirs]

SetSnapHomeDirs(homedirs) ==
    /\ HomeBecomes(homedirs, HomeDirsTable[GlobalRootDir, homedirs])
    /\ UNCHANGED << envVars, syncVars, tableVars, callbacks, invoked >>

\* the call's outcome is r
Gives(dir, r) ==
    last' = [Call("StripRootDir", dir) EXCEPT !.panic = r.panic, !.str = r.str]

StripRootDir(dir) ==
    /\ Gives(dir, StripTable[GlobalRootDir, dir])
    /\ UNCHANGED << envVars, syncVars, tableVars, homeVars, callbacks, invoked >>

\* the default mount path changes on disk
ChangeDefaultDir(st) ==
    /\ fs.defaultDir # st
    /\ fs' = [fs EXCEPT !.defaultDir = st]
    /\ last' = Call("fs", <<>>)
    /\ UNCHANGED << release, syncVars, tableVars, homeVars, callbacks, invoked >>

\* /meta/snap.yaml appears, disappears or becomes unreadable
ChangeMetaSnap(st) ==
    /\ fs.metaSnap # st
    /\ fs' = [fs EXCEPT !.metaSnap = st]
    /\ last' = Call("fs", <<>>)
    /\ UNCHANGED << release, syncVars, tableVars, homeVars, callbacks, invoked >>

\* rootdir/usr/lib/snapd appears, disappears or becomes unreadable
ChangeLibexec(st) ==
    /\ fs.libexec # st
    /\ fs' = [fs EXCEPT !.libexec = st]
    /\ last' = Call("fs", <<>>)
    /\ UNCHANGED << release, syncVars, tableVars, homeVars, callbacks, invoked >>

\* rootdir/usr/libexec/snapd appears, disappears or becomes unreadable
ChangeAltLibexec(st) ==
    /\ fs.altLibexec # st
    /\ fs' = [fs EXCEPT !.altLibexec = st]
    /\ last' = Call("fs", <<>>)
    /\ UNCHANGED << release, syncVars, tableVars, homeVars, callbacks, invoked >>

\* ---------------------------------------------------------------- threads

\* the three lists as they are now
HomeNow ==
    [ snapHomeDirs |-> snapHomeDirs, snapDataHomeGlob |-> snapDataHomeGlob,
      hiddenSnapDataHomeGlob |-> hiddenSnapDataHomeGlob ]

\* the three lists are written
SetHome(st) ==
    /\ snapHomeDirs' = st.snapHomeDirs
    /\ snapDataHomeGlob' = st.snapDataHomeGlob
    /\ hiddenSnapDataHomeGlob' = st.hiddenSnapDataHomeGlob

\* a faulty variant: the mutex lets a thread in while another holds it
LockAnyway(mu) == TRUE

\* snapHomeDirsMu.Lock() goes through when no thread holds the mutex
TryLock(mu) == mu = 0

\* thread t moves on to pc
Goes(t, pc) == threads' = [threads EXCEPT ![t].pc = pc]

\* a thread calls op(arg) and takes the mutex; old is the list of home
\* directories it finds
Enter(t, op, arg, pc) ==
    /\ threads[t].pc = "idle"
    /\ TryLock(snapHomeDirsMu)
    /\ snapHomeDirsMu' = t
    /\ threads' = [threads EXCEPT ![t] = [ pc |-> pc, op |-> op, arg |-> arg, i |-> 1,
                                           old |-> snapHomeDirs ]]
    /\ UNCHANGED << envVars, tableVars, homeVars, callbacks, invoked, last >>

\* the deferred snapHomeDirsMu.Unlock() as the call returns
Leave(t) ==
    /\ snapHomeDirsMu' = 0
    /\ threads' = [threads EXCEPT ![t] = Idle]

\* what the threads leave alone while they write the lists
Untouched == << envVars, tableVars, callbacks, invoked >>

\* a faulty variant: the old values are not cleared
NotCleared(st) == st

\* clear old values
Cleared(st) == ZeroHome

ClearOld(t) ==
    /\ threads[t].pc = "clear"
    /\ SetHome(Cleared(HomeNow))
    /\ Goes(t, IF threads[t].arg # <<>> THEN "split" ELSE "home")
    /\ UNCHANGED << Untouched, snapHomeDirsMu, last >>

\* snapHomeDirs = strings.Split(homedirs, ",")
SplitDirs(t) ==
    /\ threads[t].pc = "split"
    /\ snapHomeDirs' = Split(threads[t].arg, ",")
    /\ Goes(t, "loop")
    /\ UNCHANGED << Untouched, snapHomeDirsMu, snapDataHomeGlob,
                    hiddenSnapDataHomeGlob, last >>

\* one turn of for i := range snapHomeDirs
Turn(t) ==
    /\ threads[t].pc = "loop"
    /\ threads[t].i <= Len(snapHomeDirs)
    /\ SetHome(LoopTurn(HomeNow, threads[t].i,
                        HomeDirEntry(GlobalRootDir, snapHomeDirs[threads[t].i])))
    /\ threads' = [threads EXCEPT ![t].i = @ + 1]
    /\ UNCHANGED << Untouched, snapHomeDirsMu, last >>

\* the loop is over
EndLoop(t) ==
    /\ threads[t].pc = "loop"
    /\ threads[t].i > Len(snapHomeDirs)
    /\ Goes(t, "home")
    /\ UNCHANGED << Untouched, homeVars, snapHomeDirsMu, last >>

\* make sure /home is part of the list
MakeSureOfHome(t) ==
    /\ threads[t].pc = "home"
    /\ SetHome(WithHome(GlobalRootDir, HomeNow))
    /\ Goes(t, "return")
    /\ UNCHANGED << Untouched, snapHomeDirsMu, last >>

\* return snapHomeDirs
ReturnDirs(t) ==
    /\ threads[t].pc = "return"
    /\ last' = [Call("SetSnapHomeDirs", threads[t].arg) EXCEPT
                    !.list = snapHomeDirs, !.before = threads[t].old]
    /\ Leave(t)
    /\ UNCHANGED << Untouched, homeVars >>

\* SnapHomeDirs() copies the list and returns the copy
ReadDirs(t) ==
    /\ threads[t].pc = "read"
    /\ threads[t].op = "SnapHomeDirs"
    /\ last' = [Call("SnapHomeDirs", <<>>) EXCEPT !.list = SnapHomeDirs]
    /\ Leave(t)
    /\ UNCHANGED << Untouched, homeVars >>

\* DataHomeGlobs(opts) returns one of the two glob lists
ReadGlobs(t) ==
    /\ threads[t].pc = "read"
    /\ threads[t].op = "DataHomeGlobs"
    /\ last' = [Call("DataHomeGlobs", threads[t].arg)
                    EXCEPT !.list = DataHomeGlobs(threads[t].arg # <<>>)]
    /\ Leave(t)
    /\ UNCHANGED << Untouched, homeVars >>

\* ------------------------------------------------------- specifications

\* a system with the usual layout on disk
UsualFs ==
    [ metaSnap |-> "missing", defaultDir |-> [kind |-> "dir", link |-> NoLink],
      libexec |-> "exists", altLibexec |-> "missing" ]

\* root changes, the callbacks they run and the home directories they reset
Init ==
    /\ release \in [OnClassic : BOOLEAN, DistroLikeSpecial : {FALSE}]
    /\ fs = UsualFs
    /\ \E root \in RootDirs : Loaded(root)

Next ==
    \/ \E rootdir \in RootDirs : SetRootDir(rootdir)
    \/ \E c \in Callbacks : AddRootDirCallback(c)
    \/ SetSnapHomeDirs(<<"a">>)

Spec == Init /\ [][Next]_vars

\* the roots the mount directory is probed under: none given, or an absolute path
ProbeRootDirs ==
    {<<>>} \cup {rootdir \in StringsUpTo({"/", "a"}, MaxRootLen) : IsAbs(rootdir)}

\* root changes over every state of the default mount path and of the base marker
InitProbe ==
    /\ release \in [OnClassic : {TRUE}, DistroLikeSpecial : BOOLEAN]
    /\ fs \in [ metaSnap : StatResults, defaultDir : DefaultDirStates,
                libexec : {"exists"}, altLibexec : {"missing"} ]
    /\ \E root \in ProbeRootDirs : Loaded(root)

NextProbe ==
    \/ \E rootdir \in ProbeRootDirs : SetRootDir(rootdir)
    \/ \E st \in DefaultDirStates : ChangeDefaultDir(st)
    \/ \E st \in StatResults : ChangeMetaSnap(st)
    \/ (callbacks = <<>> /\ AddRootDirCallback("SnapBinariesDir"))
    \/ SetSnapHomeDirs(<<"a">>)

SpecProbe == InitProbe /\ [][NextProbe]_vars

\* the home directories under every root and every homedirs string
InitHomeDirs ==
    /\ release = [OnClassic |-> TRUE, DistroLikeSpecial |-> FALSE]
    /\ fs = UsualFs
    /\ \E root \in RootDirs : Loaded(root)

NextHomeDirs ==
    \/ \E rootdir \in RootDirs : SetRootDir(rootdir)
    \/ \E homedirs \in HomeDirStrings : SetSnapHomeDirs(homedirs)

SpecHomeDirs == InitHomeDirs /\ [][NextHomeDirs]_vars

\* StripRootDir under every root
NextStrip ==
    \/ \E rootdir \in RootDirs : SetRootDir(rootdir)
    \/ \E dir \in Dirs : StripRootDir(dir)
    \/ \E p \in RelPaths : StripRootDir(Join(<<GlobalRootDir, p>>))

SpecStrip == InitHomeDirs /\ [][NextStrip]_vars

\* root changes while the two libexec directories come and go
InitLibExec ==
    /\ release = [OnClassic |-> TRUE, DistroLikeSpecial |-> FALSE]
    /\ fs \in [ metaSnap : {"missing"}, defaultDir : {[kind |-> "dir", link |-> NoLink]},
                libexec : StatResults, altLibexec : StatResults ]
    /\ \E root \in ProbeRootDirs : Loaded(root)

NextLibExec ==
    \/ \E rootdir \in ProbeRootDirs : SetRootDir(rootdir)
    \/ \E st \in StatResults : ChangeLibexec(st)
    \/ \E st \in StatResults : ChangeAltLibexec(st)

SpecLibExec == InitLibExec /\ [][NextLibExec]_vars

\* the homedirs strings the threads hand in
ThreadHomeDirs == StringsUpTo({"a", ","}, MaxHomeLen)

\* opts of DataHomeGlobs: nil, or HiddenSnapDataDir set
GlobOpts == {<<>>, <<"hidden">>}

\* threads calling SetSnapHomeDirs, SnapHomeDirs and DataHomeGlobs under a fixed root
InitThreads ==
    /\ release = [OnClassic |-> TRUE, DistroLikeSpecial |-> FALSE]
    /\ fs = UsualFs
    /\ \E root \in {<<>>, <<"/", "a">>} : Loaded(root)

NextThreads ==
    \E t \in Threads :
        \/ \E homedirs \in ThreadHomeDirs : Enter(t, "SetSnapHomeDirs", homedirs, "clear")
        \/ Enter(t, "SnapHomeDirs", <<>>, "read")
        \/ \E opts \in GlobOpts : Enter(t, "DataHomeGlobs", opts, "read")
        \/ ClearOld(t)
        \/ SplitDirs(t)
        \/ Turn(t)
        \/ EndLoop(t)
        \/ MakeSureOfHome(t)
        \/ ReturnDirs(t)
        \/ ReadDirs(t)
        \/ ReadGlobs(t)

SpecThreads == InitThreads /\ [][NextThreads]_vars

\* --------------------------------------------------------------- claims

\* the package variables as a callback would read them now
Globals == [paths |-> paths, snapHomeDirs |-> snapHomeDirs]

\* C1: when SetRootDir(r) has returned, every registered callback has run
\* exactly once, in registration order, with the new root as its argument, and
\* what it read of the path table when it ran is the value derived from r,
\* WritableMountPath and WritableUbuntuCoreSystemDataDir included.
CallbacksSeeUpdatedTable ==
    last.op = "SetRootDir" =>
        /\ Len(invoked) = Len(callbacks)
        /\ \A i \in 1..Len(invoked) :
              /\ invoked[i].callback = callbacks[i]
              /\ invoked[i].rootdir = GlobalRootDir
              /\ invoked[i].value = Read(callbacks[i], Globals)

\* the components of a path, once cleaned
Components(path) == Elements(Clean(path))

\* the path is the root or its leading components are exactly the root's
LiesUnder(path, root) ==
    /\ Len(Components(root)) <= Len(Components(path))
    /\ SubSeq(Components(path), 1, Len(Components(root))) = Components(root)

\* C2: StripRootDir panics and returns nothing whenever its argument is not
\* absolute or does not lie under the current root, a sibling that only shares
\* a textual prefix with the root included.
StripRootDirPanicsOutsideRoot ==
    (/\ last.op = "StripRootDir"
     /\ ~IsAbs(last.arg) \/ ~LiesUnder(last.arg, GlobalRootDir))
        => last.panic /\ last.str = <<>>

\* C2, the sibling: under the root /a, StripRootDir(/aa) has returned
SiblingStripped ==
    /\ last.op = "StripRootDir"
    /\ GlobalRootDir = <<"/", "a">>
    /\ last.arg = <<"/", "a", "a">>
    /\ ~last.panic

\* a relative path that stays below where it starts
StaysBelow(p) == ~IsAbs(p) /\ ~HasPrefix(Clean(p), DotDot)

\* C3: under an absolute root, for every relative path p that stays below the
\* root (the empty path included), StripRootDir(join(root, p)) returns "/"
\* followed by the cleaned p, with no "." or ".." component added.
StripRootDirRoundTrip ==
    \A p \in RelPaths :
        (/\ last.op = "StripRootDir"
         /\ IsAbs(GlobalRootDir)
         /\ StaysBelow(p)
         /\ last.arg = Join(<<GlobalRootDir, p>>))
            => ~last.panic /\ last.str = Join(<<Root, p>>)

\* C3, the root itself: under the root /a, StripRootDir(/a) has returned
RootStripped ==
    /\ last.op = "StripRootDir"
    /\ GlobalRootDir = <<"/", "a">>
    /\ last.arg = <<"/", "a">>
    /\ ~last.panic

\* SetRootDir, or init() on its behalf, was the last call: the disk is as it saw it
AfterSetRootDir == last.op \in {"SetRootDir", "init"}

\* the process is not inside a base image and the distribution is not special
Probing == AfterSetRootDir /\ fs.metaSnap # "exists" /\ ~release.DistroLikeSpecial

\* the default and the alternate mount path under the current root
DefaultUnderRoot == Join(<<GlobalRootDir, DefaultSnapMountDir>>)
AltUnderRoot == Join(<<GlobalRootDir, AltSnapMountDir>>)

\* the default mount path is a symlink whose target reads as the alternate path
LinkToAlt ==
    /\ fs.defaultDir.kind = "symlink"
    /\ ~fs.defaultDir.link.readlinkErr
    /\ fs.defaultDir.link.target \in
           {AltSnapMountDir, Tail(AltSnapMountDir), AltUnderRoot}

\* C4: outside a base image and off the allow-list, SetRootDir(r) sets
\* SnapMountDir to r/snap when r/snap is a directory, and to
\* r/var/lib/snapd/snap when r/snap does not exist or is a symlink whose target
\* is /var/lib/snapd/snap, var/lib/snapd/snap or r/var/lib/snapd/snap; in all
\* three cases SnapMountDirDetectionOutcome() is nil.
ProbeSucceeds ==
    Probing =>
        /\ fs.defaultDir.kind = "dir" =>
              SnapMountDir = DefaultUnderRoot /\ snapMountDirDetectionError = Nil
        /\ fs.defaultDir.kind = "missing" =>
              SnapMountDir = AltUnderRoot /\ snapMountDirDetectionError = Nil
        /\ LinkToAlt =>
              SnapMountDir = AltUnderRoot /\ snapMountDirDetectionError = Nil

\* C4, the rooted link: under the root /a, SetRootDir found r/snap a symlink
\* to /a/var/lib/snapd/snap
RootedLinkProbed ==
    /\ Probing
    /\ last.op = "SetRootDir"
    /\ GlobalRootDir = <<"/", "a">>
    /\ LinkToAlt
    /\ fs.defaultDir.link.target = AltUnderRoot
    /\ SnapMountDir = AltUnderRoot

\* the probe fails on what is at the default mount path
ProbeFails ==
    \/ fs.defaultDir.kind \in {"error", "file"}
    \/ fs.defaultDir.kind = "symlink" /\ ~LinkToAlt

\* the entries of the path table that are joined to the root alone
RootDerived ==
    /\ paths.SnapDataDir = Join(<<GlobalRootDir, <<"/", "var", "/", "snap">> >>)
    /\ paths.SnapSeccompBase =
           Join(<<GlobalRootDir, <<"var", "/", "lib", "/", "snapd", "/", "seccomp">> >>)
    /\ paths.SnapSeccompDir =
           Join(<<GlobalRootDir,
                  <<"var", "/", "lib", "/", "snapd", "/", "seccomp", "/", "bpf">> >>)
    /\ paths.SnapRunDir = Join(<<GlobalRootDir, <<"/", "run", "/", "snapd">> >>)
    /\ paths.SnapRunLockDir =
           Join(<<GlobalRootDir, <<"/", "run", "/", "snapd", "/", "lock">> >>)
    /\ paths.DistroLibExecDir \in
           { Join(<<GlobalRootDir, DefaultDistroLibexecDir>>),
             Join(<<GlobalRootDir, AltDistroLibexecDir>>) }
    /\ paths.WritableMountPath \in
           {GlobalRootDir, Join(<<GlobalRootDir, <<"writable">> >>)}
    /\ paths.WritableUbuntuCoreSystemDataDir =
           Join(<<paths.WritableMountPath, <<"system-data">> >>)

\* the home directories are the default one under the current root
HomeIsDefault ==
    /\ snapHomeDirs = << Join(<<GlobalRootDir, DefaultHome>>) >>
    /\ snapDataHomeGlob =
           << Join(<<GlobalRootDir, DefaultHome, Star, UserHomeSnapDir>>) >>
    /\ hiddenSnapDataHomeGlob =
           << Join(<<GlobalRootDir, DefaultHome, Star, HiddenSnapDataHomeDir>>) >>

\* every registered callback was called, in order, with the current root
CallbacksInvoked ==
    /\ Len(invoked) = Len(callbacks)
    /\ \A i \in 1..Len(invoked) :
          invoked[i].callback = callbacks[i] /\ invoked[i].rootdir = GlobalRootDir

\* C5: when the probe fails during SetRootDir(r), SetRootDir still completes:
\* SnapMountDir is the placeholder, SnapMountDirDetectionOutcome() is non-nil,
\* every root-derived entry holds its value for r, SnapBinariesDir is built
\* from the placeholder, the home directories are reset and the callbacks are
\* invoked.
ProbeFailureCompletes ==
    (Probing /\ ProbeFails) =>
        /\ SnapMountDir = snapMountDirUnresolvedPlaceholder
        /\ snapMountDirDetectionError # Nil
        /\ RootDerived
        /\ paths.SnapBinariesDir = <<"mount-dir-is-unset", "/", "bin">>
        /\ HomeIsDefault
        /\ CallbacksInvoked

\* C5, the unrelated link: SetRootDir(/a) found r/snap a symlink to somewhere
\* else, with two home directories set and a callback registered
FailedProbeCompleted ==
    /\ Probing /\ ProbeFails
    /\ last.op = "SetRootDir"
    /\ GlobalRootDir = <<"/", "a">>
    /\ fs.defaultDir.kind = "symlink"
    /\ fs.defaultDir.link.target = <<"/", "a">>
    /\ last.n > 1
    /\ invoked # <<>>
    /\ SnapMountDir = snapMountDirUnresolvedPlaceholder

\* C6: GlobalRootDir is never empty; SetRootDir(r) with a non-empty r leaves
\* it equal to r as given, and SetRootDir("") leaves it equal to "/".
GlobalRootDirNonEmpty ==
    /\ GlobalRootDir # <<>>
    /\ AfterSetRootDir =>
          GlobalRootDir = (IF last.arg = <<>> THEN <<"/">> ELSE last.arg)

\* C6, the empty root: SetRootDir("") was called with home directories set
\* under another root, and the root is "/"
EmptyRootSet ==
    /\ last.op = "SetRootDir"
    /\ last.arg = <<>>
    /\ last.n > 1
    /\ GlobalRootDir = <<"/">>

\* the default home directory under the current root
HomeUnderRoot == Join(<<GlobalRootDir, DefaultHome>>)

\* C7: every SetRootDir(r), whatever home directories were set before, leaves
\* r/home as the only home directory and one glob of each variant for it.
HomeDirsReset ==
    last.op = "SetRootDir" =>
        /\ SnapHomeDirs = <<HomeUnderRoot>>
        /\ DataHomeGlobs(FALSE) = << Join(<<HomeUnderRoot, Star, UserHomeSnapDir>>) >>
        /\ DataHomeGlobs(TRUE) = << Join(<<HomeUnderRoot, Star, HiddenSnapDataHomeDir>>) >>

\* C7, a root change over three home directories: SetRootDir(/a) was called
\* with three of them set, and one is left
HomeDirsDropped ==
    /\ last.op = "SetRootDir"
    /\ last.arg = <<"/", "a">>
    /\ last.n = 3
    /\ Len(snapHomeDirs) = 1

\* the entries of a comma-separated list; none when the list is empty
Entries(homedirs) == IF homedirs = <<>> THEN <<>> ELSE Split(homedirs, ",")

\* the path begins with the root followed by a separator
AlreadyUnder(path, root) ==
    IF HasSuffix(root, <<Sep>>) THEN HasPrefix(path, root)
    ELSE HasPrefix(path, root \o <<Sep>>)

\* an entry cleaned, and re-rooted unless it is already under the root
Rerooted(entry, root) ==
    IF AlreadyUnder(Clean(entry), root) THEN Clean(entry)
    ELSE Join(<<root, Clean(entry)>>)

\* the entries of the input, in input order, each cleaned and re-rooted
Given(homedirs, root) ==
    [i \in 1..Len(Entries(homedirs)) |-> Rerooted(Entries(homedirs)[i], root)]

\* the list with the default home last, if it is not in it
HomeLast(dirs, home) ==
    IF \E i \in 1..Len(dirs) : dirs[i] = home THEN dirs ELSE Append(dirs, home)

GlobsInLockstep ==
    /\ Len(DataHomeGlobs(FALSE)) = Len(SnapHomeDirs)
    /\ Len(DataHomeGlobs(TRUE)) = Len(SnapHomeDirs)
    /\ \A i \in 1..Len(SnapHomeDirs) :
          /\ DataHomeGlobs(FALSE)[i] = Join(<<SnapHomeDirs[i], <<"*", "/", "snap">> >>)
          /\ DataHomeGlobs(TRUE)[i] =
                 Join(<<SnapHomeDirs[i], <<"*", "/", ".snap", "/", "data">> >>)
    /\ (last.op = "SetSnapHomeDirs" /\ last.arg = <<>>) =>
          Len(SnapHomeDirs) = 1 /\ Len(DataHomeGlobs(FALSE)) = 1
                                /\ Len(DataHomeGlobs(TRUE)) = 1

\* C9, three home directories: SetSnapHomeDirs has set three of them, the
\* default one last, and there are three globs
ThreeGlobs ==
    /\ last.op = "SetSnapHomeDirs"
    /\ Len(SnapHomeDirs) = 3
    /\ Len(DataHomeGlobs(FALSE)) = 3
    /\ SnapHomeDirs[3] = HomeUnderRoot
    /\ SnapHomeDirs[1] # SnapHomeDirs[2]

\* C10: under an absolute root, whatever SetRootDir and SetSnapHomeDirs were
\* given, every element of SnapHomeDirs() is an absolute path that lies under
\* the current root.
HomeDirsUnderRoot ==
    IsAbs(GlobalRootDir) =>
        \A i \in 1..Len(SnapHomeDirs) :
            IsAbs(SnapHomeDirs[i]) /\ LiesUnder(SnapHomeDirs[i], GlobalRootDir)

\* C10, the parent: under the root /a, SetSnapHomeDirs("..") has set the home
\* directory "/"
ParentIsHome ==
    /\ last.op = "SetSnapHomeDirs"
    /\ GlobalRootDir = <<"/", "a">>
    /\ last.arg = <<".", ".">>
    /\ SnapHomeDirs[1] = <<"/">>

\* the homedirs strings whose lists a reader can be handed: those the threads
\* set, and the one SetRootDir sets
SetHomeDirs == ThreadHomeDirs \cup {DefaultHome}

\* C11: with threads calling SetSnapHomeDirs, SnapHomeDirs and DataHomeGlobs
\* under a fixed root, at most one of them is inside a call at a time, every
\* SetSnapHomeDirs leaves the lists of its own input, and every SnapHomeDirs or
\* DataHomeGlobs returns the complete list of one single SetSnapHomeDirs call.
ReadersSeeCompleteLists ==
    /\ Cardinality({t \in Threads : threads[t].pc # "idle"}) <= 1
    /\ last.op = "SetSnapHomeDirs" =>
          \/ \E t \in Threads : threads[t].pc # "idle"
          \/ HomeNow = HomeDirsTable[GlobalRootDir, last.arg]
    /\ last.op = "SnapHomeDirs" =>
          \E h \in SetHomeDirs :
              last.list = HomeDirsTable[GlobalRootDir, h].snapHomeDirs
    /\ (last.op = "DataHomeGlobs" /\ last.arg = <<>>) =>
          \E h \in SetHomeDirs :
              last.list = HomeDirsTable[GlobalRootDir, h].snapDataHomeGlob
    /\ (last.op = "DataHomeGlobs" /\ last.arg # <<>>) =>
          \E h \in SetHomeDirs :
              last.list = HomeDirsTable[GlobalRootDir, h].hiddenSnapDataHomeGlob

\* C11, a reader and a writer: a thread is half way through the loop of
\* SetSnapHomeDirs("a,"), one entry re-rooted and one not, and the last
\* SnapHomeDirs() returned two home directories
ReadBeforeHalfWritten ==
    /\ \E t \in Threads :
          /\ threads[t].pc = "loop"
          /\ threads[t].arg = <<"a", ",">>
          /\ threads[t].i = 2
    /\ Len(snapHomeDirs) = 2
    /\ Len(snapDataHomeGlob) = 1
    /\ last.op = "SnapHomeDirs"
    /\ Len(last.list) = 2

\* C12: with the disk and the release flags unchanged, a second SetRootDir(r)
\* right after a first one leaves SnapMountDir, the detection error, the path
\* table, the home directories and the globs as the first call left them.
SetRootDirIdempotent ==
    [][ (last.op = "SetRootDir" /\ last'.op = "SetRootDir" /\ last'.arg = last.arg)
            => (tableVars' = tableVars /\ homeVars' = homeVars) ]_vars

\* C12, twice in a row: SetRootDir(/a) was called twice in a row while the
\* probe fails on an unreadable symlink
SetRootDirTwice ==
    /\ last.op = "SetRootDir"
    /\ last.twice
    /\ last.arg = <<"/", "a">>
    /\ last.probed
    /\ fs.defaultDir.kind = "symlink"
    /\ snapMountDirDetectionError = ErrReadlink

\* C13: when the marker of a base image exists, SetRootDir(r) sets SnapMountDir
\* to r/snap whatever is found at r/snap, and does not run the probe: nothing
\* is asked of the disk about r/snap.
InsideBaseSnapSkipsProbe ==
    (AfterSetRootDir /\ fs.metaSnap = "exists") =>
        /\ SnapMountDir = DefaultUnderRoot
        /\ ~last.probed
        /\ last.calls = <<>>

\* C13, a file in the way: inside a base image SetRootDir(/a) set SnapMountDir
\* to /a/snap although /a/snap is a regular file
BaseSnapOverFile ==
    /\ last.op = "SetRootDir"
    /\ fs.metaSnap = "exists"
    /\ ~release.DistroLikeSpecial
    /\ fs.defaultDir.kind = "file"
    /\ GlobalRootDir = <<"/", "a">>
    /\ SnapMountDir = <<"/", "a", "/", "snap">>

\* the default and the alternate libexec directory under the current root
DefaultLibexecUnderRoot == Join(<<GlobalRootDir, DefaultDistroLibexecDir>>)
AltLibexecUnderRoot == Join(<<GlobalRootDir, AltDistroLibexecDir>>)

\* DistroLibExecDir changes in no step but a SetRootDir or the package's init
ChosenBySetRootDir ==
    [][ paths'.DistroLibExecDir # paths.DistroLibExecDir => last'.op = "SetRootDir" ]_vars

\* C14 as stated: after SetRootDir(r), DistroLibExecDir is r/usr/lib/snapd when
\* that exists and r/usr/libexec/snapd when r/usr/lib/snapd is absent.
AltWheneverDefaultAbsent ==
    AfterSetRootDir =>
        /\ fs.libexec = "exists" => paths.DistroLibExecDir = DefaultLibexecUnderRoot
        /\ fs.libexec = "missing" => paths.DistroLibExecDir = AltLibexecUnderRoot

\* C14, amended: after SetRootDir(r), DistroLibExecDir is r/usr/lib/snapd when
\* that exists, r/usr/libexec/snapd when r/usr/lib/snapd is absent and
\* r/usr/libexec/snapd exists, and r/usr/lib/snapd when r/usr/lib/snapd is
\* absent and r/usr/libexec/snapd does not exist either; it changes in no step
\* other than a SetRootDir, whatever happens on disk.
AltOnlyWhenItExists ==
    /\ [](AfterSetRootDir =>
            /\ fs.libexec = "exists" =>
                  paths.DistroLibExecDir = DefaultLibexecUnderRoot
            /\ (fs.libexec = "missing" /\ fs.altLibexec = "exists") =>
                  paths.DistroLibExecDir = AltLibexecUnderRoot
            /\ (fs.libexec = "missing" /\ fs.altLibexec # "exists") =>
                  paths.DistroLibExecDir = DefaultLibexecUnderRoot)
    /\ ChosenBySetRootDir

\* C14, the choice outlives the disk: SetRootDir(/a) chose /a/usr/libexec/snapd,
\* and it is still the choice after /a/usr/lib/snapd appeared and
\* /a/usr/libexec/snapd went away
AltChosenThenGone ==
    /\ last.op = "fs"
    /\ GlobalRootDir = <<"/", "a">>
    /\ fs.libexec = "exists"
    /\ fs.altLibexec = "missing"
    /\ paths.DistroLibExecDir = Join(<< <<"/", "a">>, AltDistroLibexecDir >>)

\* C15: whatever Lstat finds at the default mount path, the probe returns from
\* one of its cases: no SetRootDir records the error of the final fall-through,
\* "internal error: unresolved snap mount dir".
ProbeNeverUnresolved ==
    (AfterSetRootDir /\ last.probed) => snapMountDirDetectionError # ErrUnresolved

\* C15, a file in the way: SetRootDir(/a) probed /a/snap, found a regular file
\* and fell through to the last return
FileFallsThrough ==
    /\ last.op = "SetRootDir"
    /\ last.probed
    /\ last.calls = <<"Lstat">>
    /\ GlobalRootDir = <<"/", "a">>
    /\ fs.defaultDir.kind = "file"
    /\ SnapMountDir = snapMountDirUnresolvedPlaceholder
    /\ snapMountDirDetectionError = ErrUnresolved

\* C16: on a distribution of the allow-list, outside a base image,
\* SetRootDir(r) probes and sets SnapMountDir to r/snap without an error,
\* whatever is at r/snap, and the probe calls neither Lstat nor Readlink.
SpecialDistroSkipsDisk ==
    (AfterSetRootDir /\ release.DistroLikeSpecial /\ fs.metaSnap # "exists") =>
        /\ last.probed
        /\ last.calls = <<>>
        /\ SnapMountDir = DefaultUnderRoot
        /\ snapMountDirDetectionError = Nil

\* C16, an unreadable link: on a distribution of the allow-list SetRootDir(/a)
\* set SnapMountDir to /a/snap although /a/snap is a symlink that cannot be read
SpecialOverBrokenLink ==
    /\ last.op = "SetRootDir"
    /\ release.DistroLikeSpecial
    /\ fs.metaSnap = "missing"
    /\ fs.defaultDir.kind = "symlink"
    /\ fs.defaultDir.link.readlinkErr
    /\ GlobalRootDir = <<"/", "a">>
    /\ SnapMountDir = <<"/", "a", "/", "snap">>
    /\ snapMountDirDetectionError = Nil

\* C18: after any SetRootDir, SnapMountDirDetectionOutcome() is non-nil exactly
\* when SnapMountDir is the placeholder: a call that resolved the mount
\* directory, by the probe or by the rule of the base image, leaves no error.
OutcomeMatchesPlaceholder ==
    (snapMountDirDetectionError # Nil) <=>
        (SnapMountDir = snapMountDirUnresolvedPlaceholder)

\* C18, the stale error: inside a base image SetRootDir(/a) set SnapMountDir to
\* /a/snap without probing, and the error of an earlier probe is still reported
StaleDetectionError ==
    /\ last.op = "SetRootDir"
    /\ ~last.probed
    /\ fs.metaSnap = "exists"
    /\ GlobalRootDir = <<"/", "a">>
    /\ SnapMountDir = <<"/", "a", "/", "snap">>
    /\ snapMountDirDetectionError = ErrNotSymlinkToAlt

\* the globs of a list of home directories, each joined with the pattern
GlobsOf(dirs, pattern) == [i \in 1..Len(dirs) |-> Join(<<dirs[i], Star, pattern>>)]

\* C17: a SetSnapHomeDirs(b) that follows a SetSnapHomeDirs(a) leaves what
\* SetSnapHomeDirs(b) alone leaves: the home directories are the entries of b,
\* re-rooted, and the default home, the globs are those of these directories,
\* and no entry and no glob of a remains.
SetSnapHomeDirsForgets ==
    (last.op = "SetSnapHomeDirs" /\ \A t \in Threads : threads[t].pc = "idle") =>
        /\ snapHomeDirs = HomeLast(Given(last.arg, GlobalRootDir), HomeUnderRoot)
        /\ snapDataHomeGlob = GlobsOf(snapHomeDirs, UserHomeSnapDir)
        /\ hiddenSnapDataHomeGlob = GlobsOf(snapHomeDirs, HiddenSnapDataHomeDir)
        /\ \A i \in 1..Len(last.before) :
              ListContains(snapHomeDirs, last.before[i]) =>
                  ListContains(HomeLast(Given(last.arg, GlobalRootDir), HomeUnderRoot),
                               last.before[i])

\* C17, three directories forgotten: under the root /a a thread's
\* SetSnapHomeDirs("") found the three home directories of SetSnapHomeDirs("a,")
\* and left the default home alone, with one glob of each kind
ThreeDirsForgotten ==
    /\ last.op = "SetSnapHomeDirs"
    /\ \A t \in Threads : threads[t].pc = "idle"
    /\ GlobalRootDir = <<"/", "a">>
    /\ last.arg = <<>>
    /\ last.before = << <<"/", "a", "/", "a">>, <<"/", "a">>, <<"/", "a", "/", "home">> >>
    /\ snapHomeDirs = << <<"/", "a", "/", "home">> >>
    /\ Len(snapDataHomeGlob) = 1
    /\ Len(hiddenSnapDataHomeGlob) = 1

====
